---- MODULE Spec2Model ----
(***************************************************************************)
(* RepositorySessionManager (strands/session/repository_session_manager.py) *)
(* driving a SessionRepository, and BasetenModel.stream                     *)
(* (strands/models/baseten.py).                                             *)
(*                                                                          *)
(* Spec           one instance at a time, every coordinator method one      *)
(*                action; a restart builds a new instance on the same       *)
(*                repository.                                               *)
(* SpecFail       the same for one agent, from before the first instance,   *)
(*                with repository calls that raise and with the process     *)
(*                ending inside a call.                                     *)
(* SpecInterleave two threads, one per agent_id, a step per access to the   *)
(*                cache, a cached object or the repository.                 *)
(* SpecRace       two threads calling append_message and                    *)
(*                redact_latest_message for the same agent_id.              *)
(* SpecStream     the generator of stream over every short provider         *)
(*                response.                                                 *)
(***************************************************************************)
EXTENDS Integers, Sequences, FiniteSets, TLC

\* ---------------------------------------------------------------- bounds
MaxInitMsgs == 2     \* longest agent.messages handed to initialize
MaxCreated  == 2     \* create_message calls over the whole run, all agents together
MaxRaceAppends == 3  \* append_message calls of the two threads that race for one agent
MaxEvents   == 2     \* longest provider response handed to BasetenModel.stream

\* ---------------------------------------------------------------- inputs
SessionId == "s1"
Agents    == {"a1", "a2"}
Contents  == {"m1", "m2"}        \* message contents
Redacts   == {"r1", "r2"}        \* redaction contents
States    == {"x1", "x2"}        \* agent.state values

\* Optional[...] : Python None
None     == [tag |-> "None"]
NoRedact == "None"               \* SessionMessage.redact_message is None
NoAgent  == [messages |-> << >>, state |-> "-"]   \* the call reads neither agent.messages
                                                  \* nor agent.state
NoMessage == "-"                 \* the call takes no message

\* the sequences over S of length at most n
RECURSIVE SeqsUpTo(_, _)
SeqsUpTo(S, n) ==
    IF n = 0 THEN {<< >>}
    ELSE LET shorter == SeqsUpTo(S, n - 1)
         IN  shorter \cup {Append(s, x) : s \in {t \in shorter : Len(t) = n - 1},
                                          x \in S}

\* the Agent objects handed to initialize: what agent.messages and agent.state hold
HeldLists == {s \in SeqsUpTo(Contents, MaxInitMsgs) :
                 \A i \in 1..(Len(s) - 1) : s[i] # s[i + 1]}
AgentObjects == [messages : HeldLists, state : States]

VARIABLES
    cache,          \* self._latest_agent_message : dict agent_id -> Optional[SessionMessage]
    agent,          \* agent.messages and agent.state of the Agent object handed to the
                    \* latest call, as the call left them (NoAgent when it reads neither)
    repoSessions,   \* repository: session ids that exist
    repoAgents,     \* repository: agent_id -> SessionAgent
    repoMessages,   \* repository: agent_id -> set of SessionMessage, keyed by message_id
    created,        \* history: the SessionMessages passed to create_message, per agent, in order
    base,           \* history: Len(created[a]) when initialize(a) returned on this instance
    appendId,       \* history: message_id of the latest append_message on this instance, -1 if none
    calls,          \* the repository calls made by the latest coordinator call, in order
    last,           \* the latest coordinator call: operation, agent_id, outcome, the
                    \* message a successful call was given, the Agent object the
                    \* create path of initialize was given
    threads,        \* the coordinator calls in progress: per thread the statement it
                    \* is at and its local variables
    heap,           \* the SessionMessage objects this instance holds, by reference
    cacheRef,       \* agent_id -> the reference self._latest_agent_message holds (0: None)
    race,           \* history, per agent: whether two calls for it were in progress at
                    \* once, the ids its append_message calls persisted, whether a
                    \* redaction hit another message than the latest at its call
    stream          \* BasetenModel.stream: the generator's position and local variables

vars == <<cache, agent, repoSessions, repoAgents, repoMessages,
          created, base, appendId, calls, last>>

repo == <<repoSessions, repoAgents, repoMessages>>
hist == <<created, base, appendId>>
conc == <<threads, heap, cacheRef, race>>
allvars == <<vars, conc, stream>>

\* ------------------------------------------------------- session entities
\* SessionMessage.from_message(message, index)
FromMessage(message, index) ==
    [message_id |-> index, message |-> message, redact_message |-> NoRedact]

\* SessionMessage.to_message(): the redaction, when present, is surfaced in place
\* of the message
ToMessage(sm) ==
    IF sm.redact_message # NoRedact THEN sm.redact_message ELSE sm.message

\* SessionAgent.from_agent(agent): a snapshot of the agent with agent_id a, whose
\* agent.state is `state`
FromAgent(a, state) == [agent_id |-> a, state |-> state]

\* ------------------------------------------------------------- repository
Call(op, a, arg) == [op |-> op, agent_id |-> a, arg |-> arg]

ReadSession(sessions, sid) == IF sid \in sessions THEN sid ELSE "absent"
CreateSession(sessions, sid) == sessions \cup {sid}

ReadAgent(agents, a) == IF a \in DOMAIN agents THEN agents[a] ELSE None

CreateAgent(agents, sa) ==
    [x \in DOMAIN agents \cup {sa.agent_id} |-> IF x = sa.agent_id THEN sa ELSE agents[x]]

UpdateAgent(agents, sa) ==
    [x \in DOMAIN agents |-> IF x = sa.agent_id THEN sa ELSE agents[x]]

\* persists the message under its message_id
CreateMessage(msgs, a, sm) ==
    [msgs EXCEPT ![a] = {m \in @ : m.message_id # sm.message_id} \cup {sm}]

\* overwrites the message at its message_id
UpdateMessage(msgs, a, sm) ==
    [msgs EXCEPT ![a] = {IF m.message_id = sm.message_id THEN sm ELSE m : m \in @}]

RECURSIVE SortById(_)
SortById(S) ==
    IF S = {} THEN << >>
    ELSE LET m == CHOOSE x \in S : \A y \in S : x.message_id <= y.message_id
         IN  <<m>> \o SortById(S \ {m})

\* ascending by message_id
ListMessages(msgs, a) == SortById(msgs[a])

\* ------------------------------------------------------------ coordinator
Initialized(a) == a \in DOMAIN cache

\* the duplicate check left out
NeverInitialized(a) == FALSE

\* `if agent.agent_id in self._latest_agent_message:`
AlreadyInitialized(a) == a \in DOMAIN cache

CacheSet(c, a, v) == [x \in DOMAIN c \cup {a} |-> IF x = a THEN v ELSE c[x]]

\* the next index without the increment
NextIndexStuck(latest) ==
    IF latest # None THEN latest.message_id ELSE 0

\* `if latest_agent_message:` ... `else: next_index = 0`
NextIndex(latest) ==
    IF latest # None THEN latest.message_id + 1 ELSE 0

\* enumerate counting from 1
EnumerateFromOne(pos) == pos

\* `for i, message in enumerate(agent.messages)`: the index of the element at
\* (1-based) position pos
EnumerateIndex(pos) == pos - 1

\* raise SessionException(...)
DuplicateInitialization == "SessionException: The agent_id of an agent must be unique in a session."
NoMessageToRedact       == "SessionException: No message to redact."

RECURSIVE TotalCreated(_, _)
TotalCreated(log, S) ==
    IF S = {} THEN 0
    ELSE LET a == CHOOSE x \in S : TRUE
         IN  Len(log[a]) + TotalCreated(log, S \ {a})

Outcome(op, a, message, given, result) ==
    [op |-> op, agent_id |-> a, message |-> message, given |-> given, result |-> result]

\* ------------------------------------------------- calls in progress, objects
Threads == {"t1", "t2"}

\* no key in the cache
Absent == [tag |-> "absent"]
\* what a call finds for its agent when it is made: the cache entry, the persisted
\* messages, the persisted agent
NoSnapshot == [cache |-> Absent, messages |-> {}, agent |-> None, created |-> << >>]

\* a thread that is in no coordinator call
Idle == [pc |-> "idle", op |-> "-", agent_id |-> "-", message |-> NoMessage, given |-> NoAgent,
         ref |-> 0, index |-> 0, log |-> << >>, before |-> NoSnapshot]

\* references: one object per cache entry and one per call in progress at most
HeapSize == Cardinality(Agents) + Cardinality(Threads)
EmptyHeap == [o \in 1..HeapSize |-> None]
NoRace == [a \in Agents |-> [overlapped |-> FALSE, appended |-> << >>, redactedOther |-> FALSE]]

NoConcurrency ==
    /\ threads = [t \in Threads |-> Idle]
    /\ heap = EmptyHeap
    /\ cacheRef = [a \in Agents |-> 0]
    /\ race = NoRace

\* no request is being streamed
StreamOff == [pc |-> "off", response |-> << >>, pos |-> 0, choice |-> 0, event |-> 0,
              tool_calls |-> << >>, yielded |-> << >>]

\* a coordinator just built on an empty repository
Constructed ==
    /\ cache = << >>
    /\ agent = NoAgent
    /\ repoSessions = {SessionId}
    /\ repoAgents = << >>
    /\ repoMessages = [a \in Agents |-> {}]
    /\ created = [a \in Agents |-> << >>]
    /\ base = [a \in Agents |-> 0]
    /\ appendId = [a \in Agents |-> -1]
    /\ calls = <<Call("read_session", "-", [session_id |-> SessionId]), Call("create_session", "-", [session_id |-> SessionId])>>
    /\ last = Outcome("__init__", "-", NoMessage, NoAgent, "ok")

Init ==
    /\ Constructed
    /\ NoConcurrency
    /\ stream = StreamOff

\* append_message reading the cache with a default, `self._latest_agent_message.get(...)`,
\* so that an agent_id never initialized gets its entry here
AppendMessageDefaulting(a, message) ==
    /\ TotalCreated(created, Agents) < MaxCreated
    /\ LET latest_agent_message == IF Initialized(a) THEN cache[a] ELSE None
           next_index == NextIndex(latest_agent_message)
           session_message == FromMessage(message, next_index)
       IN  /\ cache' = CacheSet(cache, a, session_message)
           /\ repoMessages' = CreateMessage(repoMessages, a, session_message)
           /\ calls' = <<Call("create_message", a, session_message)>>
           /\ created' = [created EXCEPT ![a] = Append(@, session_message)]
           /\ appendId' = [appendId EXCEPT ![a] = next_index]
           /\ last' = Outcome("append_message", a, message, NoAgent, "ok")
           /\ agent' = NoAgent
           /\ UNCHANGED <<repoSessions, repoAgents, base>>

\* append_message(message, agent)
AppendMessage(a, message) ==
    /\ TotalCreated(created, Agents) < MaxCreated
    /\ IF ~Initialized(a)
       THEN /\ last' = Outcome("append_message", a, NoMessage, NoAgent, "KeyError")
            /\ calls' = << >>
            /\ agent' = NoAgent
            /\ UNCHANGED <<cache, repo, hist>>
       ELSE LET latest_agent_message == cache[a]
                next_index == NextIndex(latest_agent_message)
                session_message == FromMessage(message, next_index)
            IN  /\ cache' = [cache EXCEPT ![a] = session_message]
                /\ repoMessages' = CreateMessage(repoMessages, a, session_message)
                /\ calls' = <<Call("create_message", a, session_message)>>
                /\ created' = [created EXCEPT ![a] = Append(@, session_message)]
                /\ appendId' = [appendId EXCEPT ![a] = next_index]
                /\ last' = Outcome("append_message", a, message, NoAgent, "ok")
                /\ agent' = NoAgent
                /\ UNCHANGED <<repoSessions, repoAgents, base>>

\* `latest_agent_message.redact_message = redact_message`, writing the wrong field
RedactedOverMessage(latest, redact_message) ==
    [latest EXCEPT !.message = redact_message]

\* `latest_agent_message.redact_message = redact_message`, and moving on to the next id
RedactedShifted(latest, redact_message) ==
    [latest EXCEPT !.redact_message = redact_message, !.message_id = @ + 1]

\* `latest_agent_message.redact_message = redact_message`
Redacted(latest, redact_message) ==
    [latest EXCEPT !.redact_message = redact_message]

\* redact_latest_message that returns quietly when there is nothing to redact
RedactLatestMessageQuiet(a, redact_message) ==
    IF ~Initialized(a)
    THEN /\ last' = Outcome("redact_latest_message", a, NoMessage, NoAgent, "KeyError")
         /\ calls' = << >>
         /\ agent' = NoAgent
         /\ UNCHANGED <<cache, repo, hist>>
    ELSE LET latest_agent_message == cache[a]
         IN  IF latest_agent_message = None
             THEN /\ last' = Outcome("redact_latest_message", a, redact_message, NoAgent, "ok")
                  /\ calls' = << >>
                  /\ agent' = NoAgent
                  /\ UNCHANGED <<cache, repo, hist>>
             ELSE LET mutated == Redacted(latest_agent_message, redact_message)
                  IN  /\ cache' = [cache EXCEPT ![a] = mutated]
                      /\ repoMessages' = UpdateMessage(repoMessages, a, mutated)
                      /\ calls' = <<Call("update_message", a, mutated)>>
                      /\ last' = Outcome("redact_latest_message", a, redact_message, NoAgent, "ok")
                      /\ agent' = NoAgent
                      /\ UNCHANGED <<repoSessions, repoAgents, hist>>

\* redact_latest_message(redact_message, agent)
RedactLatestMessage(a, redact_message) ==
    IF ~Initialized(a)
    THEN /\ last' = Outcome("redact_latest_message", a, NoMessage, NoAgent, "KeyError")
         /\ calls' = << >>
         /\ agent' = NoAgent
         /\ UNCHANGED <<cache, repo, hist>>
    ELSE LET latest_agent_message == cache[a]
         IN  IF latest_agent_message = None
             THEN /\ last' = Outcome("redact_latest_message", a, NoMessage, NoAgent,
                                     NoMessageToRedact)
                  /\ calls' = << >>
                  /\ agent' = NoAgent
                  /\ UNCHANGED <<cache, repo, hist>>
             ELSE LET mutated == Redacted(latest_agent_message, redact_message)
                  IN  \* the cached object itself is mutated, then written
                      /\ cache' = [cache EXCEPT ![a] = mutated]
                      /\ repoMessages' = UpdateMessage(repoMessages, a, mutated)
                      /\ calls' = <<Call("update_message", a, mutated)>>
                      /\ last' = Outcome("redact_latest_message", a, redact_message, NoAgent, "ok")
                      /\ agent' = NoAgent
                      /\ UNCHANGED <<repoSessions, repoAgents, hist>>

\* sync_agent that writes back the snapshot it finds in the repository
SyncAgentStale(a, state) ==
    /\ a \in DOMAIN repoAgents
    /\ agent' = [messages |-> << >>, state |-> state]
    /\ repoAgents' = UpdateAgent(repoAgents, ReadAgent(repoAgents, a))
    /\ calls' = <<Call("update_agent", a, ReadAgent(repoAgents, a))>>
    /\ last' = Outcome("sync_agent", a, NoMessage, NoAgent, "ok")
    /\ UNCHANGED <<cache, repoSessions, repoMessages, hist>>

\* sync_agent(agent), agent.state being `state` (agent.messages is not read); the
\* repository overwrites the snapshot of an existing record
SyncAgent(a, state) ==
    /\ a \in DOMAIN repoAgents
    /\ agent' = [messages |-> << >>, state |-> state]
    /\ repoAgents' = UpdateAgent(repoAgents, FromAgent(a, state))
    /\ calls' = <<Call("update_agent", a, FromAgent(a, state))>>
    /\ last' = Outcome("sync_agent", a, NoMessage, NoAgent, "ok")
    /\ UNCHANGED <<cache, repoSessions, repoMessages, hist>>

\* the create path's loop: create_message for the elements of agent.messages from
\* position pos on
RECURSIVE CreateAll(_, _, _, _)
CreateAll(msgs, a, held, pos) ==
    IF pos > Len(held) THEN msgs
    ELSE CreateAll(CreateMessage(msgs, a, FromMessage(held[pos], EnumerateIndex(pos))),
                   a, held, pos + 1)

CreatedByInit(held) ==
    [pos \in 1..Len(held) |-> FromMessage(held[pos], EnumerateIndex(pos))]

\* `[session_message.to_message() for session_message in ...list_messages(...)]`,
\* with the elements in the wrong order
RestoredMessagesReversed(listed) ==
    [i \in 1..Len(listed) |-> ToMessage(listed[Len(listed) + 1 - i])]

\* `[session_message.to_message() for session_message in ...list_messages(...)]`
RestoredMessages(listed) ==
    [i \in 1..Len(listed) |-> ToMessage(listed[i])]

\* initialize(agent), agent.messages and agent.state being those of `given`
InitializeBody(a, given) ==
    IF AlreadyInitialized(a)
    THEN /\ last' = Outcome("initialize", a, NoMessage, NoAgent, DuplicateInitialization)
         /\ calls' = << >>
         /\ agent' = NoAgent
         /\ UNCHANGED <<cache, repo, hist>>
    ELSE LET session_agent == ReadAgent(repoAgents, a)
             held == given.messages
             snapshot == FromAgent(a, given.state)
         IN  /\ cache' = CacheSet(cache, a, None)
             /\ appendId' = [appendId EXCEPT ![a] = -1]
             /\ IF session_agent = None
                THEN /\ repoAgents' = CreateAgent(repoAgents, snapshot)
                     /\ repoMessages' = CreateAll(repoMessages, a, held, 1)
                     /\ created' = [created EXCEPT ![a] = @ \o CreatedByInit(held)]
                     /\ calls' = <<Call("read_agent", a, None), Call("create_agent", a, snapshot)>>
                                 \o [pos \in 1..Len(held) |->
                                        Call("create_message", a, CreatedByInit(held)[pos])]
                     /\ agent' = given
                     /\ last' = Outcome("initialize", a, NoMessage, given, "ok")
                     /\ UNCHANGED repoSessions
                ELSE LET listed == ListMessages(repoMessages, a)
                     IN  /\ agent' = [messages |-> RestoredMessages(listed),
                                       state |-> session_agent.state]
                         /\ calls' = <<Call("read_agent", a, None), Call("list_messages", a, None)>>
                         /\ last' = Outcome("initialize", a, NoMessage, NoAgent, "ok")
                         /\ UNCHANGED <<repo, created>>
             /\ base' = [base EXCEPT ![a] = Len(created'[a])]

Initialize(a, given) ==
    /\ TotalCreated(created, Agents) + Len(given.messages) <= MaxCreated
    /\ InitializeBody(a, given)

\* the session looked up but created whatever the lookup returns
SessionAlwaysNone(session) == TRUE

\* `if session is None:`
SessionIsNone(session) == session = "absent"

\* RepositorySessionManager(session_id, session_repository)
NewInstance ==
    /\ LET session == ReadSession(repoSessions, SessionId)
       IN  IF SessionIsNone(session)
           THEN /\ repoSessions' = CreateSession(repoSessions, SessionId)
                /\ calls' = <<Call("read_session", "-", [session_id |-> SessionId]),
                              Call("create_session", "-", [session_id |-> SessionId])>>
           ELSE /\ repoSessions' = repoSessions
                /\ calls' = <<Call("read_session", "-", [session_id |-> SessionId])>>
    /\ cache' = << >>
    /\ agent' = NoAgent
    /\ base' = [a \in Agents |-> 0]
    /\ appendId' = [a \in Agents |-> -1]
    /\ last' = Outcome("__init__", "-", NoMessage, NoAgent, "ok")
    /\ UNCHANGED <<repoAgents, repoMessages, created>>

\* a new instance on the same repository (a restart)
Construct ==
    /\ cache # << >>      \* an instance that initialized nothing is as good as new
    /\ NewInstance

\* one call at a time, nothing streamed
Sequential == UNCHANGED <<conc, stream>>

Next ==
    \/ \E a \in Agents, given \in AgentObjects : Initialize(a, given) /\ Sequential
    \/ \E a \in Agents, m \in Contents : AppendMessage(a, m) /\ Sequential
    \/ \E a \in Agents, r \in Redacts : RedactLatestMessage(a, r) /\ Sequential
    \/ \E a \in Agents, s \in States : SyncAgent(a, s) /\ Sequential
    \/ Construct /\ Sequential

Spec == Init /\ [][Next]_allvars

\* ------------------------------------------- repository failures, termination
\* The repository raising inside a coordinator call, and the process ending inside
\* one.  The run starts before the first instance is built, on an empty repository.
\* one agent, one appended content, one redaction, one agent.state: the failures
\* tell these apart no further
FailAgents   == {"a1"}
FailContents == {"m1"}
FailRedacts  == {"r1"}
FailStates   == {"x1"}
FailObjects  == {given \in AgentObjects : given.state \in FailStates}

\* whatever exception the repository raises; the coordinator catches nothing
RepositoryError == "exception raised by the session repository"
\* the process is not running (it has not started yet, or it ended inside the call
\* that `last` names); the cache is gone with it
Down == "process not running"

Up == last.result # Down

InitDown ==
    /\ cache = << >>
    /\ agent = NoAgent
    /\ repoSessions = {}
    /\ repoAgents = << >>
    /\ repoMessages = [a \in Agents |-> {}]
    /\ created = [a \in Agents |-> << >>]
    /\ base = [a \in Agents |-> 0]
    /\ appendId = [a \in Agents |-> -1]
    /\ calls = << >>
    /\ last = Outcome("-", "-", NoMessage, NoAgent, Down)
    /\ NoConcurrency
    /\ stream = StreamOff

\* the process starts and builds its coordinator
Start ==
    /\ ~Up
    /\ NewInstance

\* append_message that assigns the cache only after create_message has returned
AppendMessageFailsBeforeCache(a, message) ==
    /\ Up
    /\ Initialized(a)
    /\ LET session_message == FromMessage(message, NextIndex(cache[a]))
       IN  /\ calls' = <<Call("create_message", a, session_message)>>
           /\ last' = Outcome("append_message", a, message, NoAgent, RepositoryError)
           /\ agent' = NoAgent
           /\ UNCHANGED <<cache, repo, hist>>

\* append_message(message, agent) with create_message raising
AppendMessageFails(a, message) ==
    /\ Up
    /\ Initialized(a)
    /\ LET latest_agent_message == cache[a]
           next_index == NextIndex(latest_agent_message)
           session_message == FromMessage(message, next_index)
       IN  /\ next_index <= MaxCreated
           /\ cache' = [cache EXCEPT ![a] = session_message]
           /\ calls' = <<Call("create_message", a, session_message)>>
           /\ last' = Outcome("append_message", a, message, NoAgent, RepositoryError)
           /\ agent' = NoAgent
           /\ UNCHANGED <<repo, hist>>

\* the repository calls of initialize(agent), in order, with the arguments they get
InitializeCalls(a, given) ==
    IF ReadAgent(repoAgents, a) = None
    THEN <<Call("read_agent", a, None), Call("create_agent", a, FromAgent(a, given.state))>>
         \o [pos \in 1..Len(given.messages) |->
                Call("create_message", a, CreatedByInit(given.messages)[pos])]
    ELSE <<Call("read_agent", a, None), Call("list_messages", a, None)>>

\* the SessionMessages created when the first `done` repository calls of
\* initialize(agent) have returned
CreatedAfter(a, given, done) ==
    IF ReadAgent(repoAgents, a) = None /\ done > 2
    THEN SubSeq(CreatedByInit(given.messages), 1, done - 2)
    ELSE << >>

\* the repository when the first `done` repository calls of initialize(agent) have
\* returned
AgentsAfter(a, given, done) ==
    IF ReadAgent(repoAgents, a) = None /\ done >= 2
    THEN CreateAgent(repoAgents, FromAgent(a, given.state))
    ELSE repoAgents

MessagesAfter(a, given, done) ==
    IF ReadAgent(repoAgents, a) = None /\ done > 2
    THEN CreateAll(repoMessages, a, SubSeq(given.messages, 1, done - 2), 1)
    ELSE repoMessages

\* initialize(agent) whose repository call number done + 1 raises
InitializeFails(a, given, done) ==
    /\ Up
    /\ ~AlreadyInitialized(a)
    /\ TotalCreated(created, Agents) + Len(given.messages) <= MaxCreated
    /\ done < Len(InitializeCalls(a, given))
    /\ cache' = CacheSet(cache, a, None)
    /\ repoAgents' = AgentsAfter(a, given, done)
    /\ repoMessages' = MessagesAfter(a, given, done)
    /\ created' = [created EXCEPT ![a] = @ \o CreatedAfter(a, given, done)]
    /\ base' = [base EXCEPT ![a] = Len(created'[a])]
    /\ appendId' = [appendId EXCEPT ![a] = -1]
    /\ calls' = SubSeq(InitializeCalls(a, given), 1, done + 1)
    /\ agent' = given
    /\ last' = Outcome("initialize", a, NoMessage, given, RepositoryError)
    /\ UNCHANGED repoSessions

\* the process ending inside initialize(agent), when `done` of its repository calls
\* have returned
InitializeTerminated(a, given, done) ==
    /\ Up
    /\ ~AlreadyInitialized(a)
    /\ TotalCreated(created, Agents) + Len(given.messages) <= MaxCreated
    /\ done <= Len(InitializeCalls(a, given))
    /\ cache' = << >>
    /\ repoAgents' = AgentsAfter(a, given, done)
    /\ repoMessages' = MessagesAfter(a, given, done)
    /\ created' = [created EXCEPT ![a] = @ \o CreatedAfter(a, given, done)]
    /\ base' = [b \in Agents |-> 0]
    /\ appendId' = [b \in Agents |-> -1]
    /\ calls' = SubSeq(InitializeCalls(a, given), 1, done)
    /\ agent' = NoAgent
    /\ last' = Outcome("initialize", a, NoMessage, given, Down)
    /\ UNCHANGED repoSessions

\* the process ending inside append_message(message, agent), before (done = 0) or
\* after (done = 1) create_message has returned
AppendMessageTerminated(a, message, done) ==
    /\ Up
    /\ Initialized(a)
    /\ TotalCreated(created, Agents) < MaxCreated
    /\ LET session_message == FromMessage(message, NextIndex(cache[a]))
       IN  /\ repoMessages' = IF done = 1 THEN CreateMessage(repoMessages, a, session_message)
                                           ELSE repoMessages
           /\ created' = [created EXCEPT ![a] = IF done = 1 THEN Append(@, session_message)
                                                             ELSE @]
           /\ calls' = IF done = 1 THEN <<Call("create_message", a, session_message)>>
                                   ELSE << >>
    /\ cache' = << >>
    /\ base' = [b \in Agents |-> 0]
    /\ appendId' = [b \in Agents |-> -1]
    /\ agent' = NoAgent
    /\ last' = Outcome("append_message", a, message, NoAgent, Down)
    /\ UNCHANGED <<repoSessions, repoAgents>>

NextFail ==
    \/ Start /\ Sequential
    \/ Up /\ Construct /\ Sequential
    \/ \E a \in FailAgents, given \in FailObjects : Up /\ Initialize(a, given) /\ Sequential
    \/ \E a \in FailAgents, m \in FailContents : Up /\ AppendMessage(a, m) /\ Sequential
    \/ \E a \in FailAgents, r \in FailRedacts : Up /\ RedactLatestMessage(a, r) /\ Sequential
    \/ \E a \in FailAgents, s \in FailStates : Up /\ SyncAgent(a, s) /\ Sequential
    \/ \E a \in FailAgents, m \in FailContents : AppendMessageFails(a, m) /\ Sequential
    \/ \E a \in FailAgents, given \in FailObjects, done \in 0..(MaxInitMsgs + 1) :
           InitializeFails(a, given, done) /\ Sequential
    \/ \E a \in FailAgents, given \in FailObjects, done \in 0..(MaxInitMsgs + 2) :
           InitializeTerminated(a, given, done) /\ Sequential
    \/ \E a \in FailAgents, m \in FailContents, done \in 0..1 :
           AppendMessageTerminated(a, m, done) /\ Sequential

SpecFail == InitDown /\ [][NextFail]_allvars

\* --------------------------------------------------------- calls that overlap
\* Coordinator calls made from several threads of one process.  A step is one
\* access to the state the threads share: the cache dict, a SessionMessage object
\* it refers to, or the repository.  Local computation goes with the access that
\* follows it.
ConcContents == {"m1"}
ConcRedacts  == {"r1"}
ConcStates   == {"x1"}
ConcObjects  == {given \in AgentObjects : given.state \in ConcStates /\ Len(given.messages) <= 1}

\* the references in use
Live(refs, ths) == ({refs[a] : a \in Agents} \cup {ths[t].ref : t \in Threads}) \ {0}
\* a reference not in use, for a new object
FreeRef == CHOOSE o \in 1..HeapSize :
               /\ o \notin Live(cacheRef, threads)
               /\ \A x \in 1..(o - 1) : x \in Live(cacheRef, threads)
\* objects nothing refers to are gone
Collect(h, refs, ths) == [o \in 1..HeapSize |-> IF o \in Live(refs, ths) THEN h[o] ELSE None]
\* the cache dict with the objects in place of the references
View(keys, refs, h) == [a \in keys |-> IF refs[a] = 0 THEN None ELSE h[refs[a]]]

\* what there is for agent x: its cache entry, its persisted messages, its
\* persisted agent, the messages created for it so far
Projection(c, ags, msgs, log, x) ==
    [cache |-> IF x \in DOMAIN c THEN c[x] ELSE Absent,
     messages |-> msgs[x],
     agent |-> ReadAgent(ags, x),
     created |-> log[x]]

Snapshot(a) == Projection(cache, repoAgents, repoMessages, created, a)

\* the create_message calls the calls in progress may still make
RECURSIVE Reserved(_)
Reserved(T) ==
    IF T = {} THEN 0
    ELSE LET t == CHOOSE x \in T : TRUE
             th == threads[t]
             n == IF th.op = "append_message" THEN 1
                  ELSE IF th.op = "initialize" THEN Len(th.given.messages) - th.index
                  ELSE 0
         IN  n + Reserved(T \ {t})

\* thread t enters a coordinator method
Enter(t, op, pc, a, message, given) ==
    /\ threads[t].pc = "idle"
    /\ threads' = [threads EXCEPT ![t] = [Idle EXCEPT !.pc = pc, !.op = op, !.agent_id = a,
                                                       !.message = message, !.given = given,
                                                       !.before = Snapshot(a)]]
    /\ race' = [race EXCEPT ![a].overlapped =
                    @ \/ \E u \in Threads \ {t} : threads[u].pc # "idle" /\ threads[u].agent_id = a]
    /\ UNCHANGED <<vars, heap, cacheRef, stream>>

CallInitialize(t, a, given) ==
    /\ TotalCreated(created, Agents) + Reserved(Threads) + Len(given.messages) <= MaxCreated
    /\ Enter(t, "initialize", "102", a, NoMessage, given)

CallAppendMessage(t, a, message) ==
    /\ TotalCreated(created, Agents) + Reserved(Threads) < MaxCreated
    /\ Enter(t, "append_message", "62", a, message, NoAgent)

\* the same call where two threads race
RaceAppendMessage(t, a, message) ==
    /\ TotalCreated(created, Agents) + Reserved(Threads) < MaxRaceAppends
    /\ Enter(t, "append_message", "62", a, message, NoAgent)

CallRedactLatestMessage(t, a, redact_message) ==
    Enter(t, "redact_latest_message", "79", a, redact_message, NoAgent)

CallSyncAgent(t, a, state) ==
    /\ a \in DOMAIN repoAgents
    /\ Enter(t, "sync_agent", "91", a, state, NoAgent)

\* thread t leaves its method, by return or by exception
Leave(t, message, given, result, log, agentAfter) ==
    /\ last' = Outcome(threads[t].op, threads[t].agent_id, message, given, result)
    /\ calls' = log
    /\ agent' = agentAfter

At(t, pc) == threads[t].pc = pc
Goto(t, pc) == [threads EXCEPT ![t].pc = pc]

\* line 62: `latest_agent_message = self._latest_agent_message[agent.agent_id]`,
\* and lines 63-68, which are local
AppendRead(t) ==
    /\ At(t, "62")
    /\ LET a == threads[t].agent_id
       IN  IF ~Initialized(a)
           THEN /\ Leave(t, NoMessage, NoAgent, "KeyError", << >>, NoAgent)
                /\ threads' = [threads EXCEPT ![t] = Idle]
                /\ UNCHANGED <<cache, repo, hist, heap, cacheRef, race, stream>>
           ELSE /\ threads' = [threads EXCEPT ![t].pc = "69",
                                              ![t].index = NextIndex(cache[a])]
                /\ UNCHANGED <<vars, heap, cacheRef, race, stream>>

\* the store of line 69 going to the entry of every agent
CachePutAll(refs, a, o) == [x \in DOMAIN refs |-> o]

\* line 69: `self._latest_agent_message[agent.agent_id] = session_message`
CachePut(refs, a, o) == [refs EXCEPT ![a] = o]

\* line 69
AppendCache(t) ==
    /\ At(t, "69")
    /\ LET a == threads[t].agent_id
           o == FreeRef
           session_message == FromMessage(threads[t].message, threads[t].index)
           ths == [threads EXCEPT ![t].pc = "70", ![t].ref = o]
           refs == CachePut(cacheRef, a, o)
           h == Collect([heap EXCEPT ![o] = session_message], refs, ths)
       IN  /\ threads' = ths
           /\ cacheRef' = refs
           /\ heap' = h
           /\ cache' = View(DOMAIN cache \cup {a}, refs, h)
    /\ UNCHANGED <<agent, repo, hist, calls, last, race, stream>>

\* line 70: `self.session_repository.create_message(...)`, and the return
AppendCreate(t) ==
    /\ At(t, "70")
    /\ LET a == threads[t].agent_id
           session_message == heap[threads[t].ref]
           ths == [threads EXCEPT ![t] = Idle]
       IN  /\ repoMessages' = CreateMessage(repoMessages, a, session_message)
           /\ created' = [created EXCEPT ![a] = Append(@, session_message)]
           /\ appendId' = [appendId EXCEPT ![a] = session_message.message_id]
           /\ race' = [race EXCEPT ![a].appended = Append(@, session_message.message_id)]
           /\ Leave(t, threads[t].message, NoAgent, "ok",
                    <<Call("create_message", a, session_message)>>, NoAgent)
           /\ threads' = ths
           /\ heap' = Collect(heap, cacheRef, ths)
    /\ UNCHANGED <<cache, repoSessions, repoAgents, base, cacheRef, stream>>

\* lines 79-81
RedactRead(t) ==
    /\ At(t, "79")
    /\ LET a == threads[t].agent_id
       IN  IF ~Initialized(a)
           THEN /\ Leave(t, NoMessage, NoAgent, "KeyError", << >>, NoAgent)
                /\ threads' = [threads EXCEPT ![t] = Idle]
           ELSE IF cache[a] = None
           THEN /\ Leave(t, NoMessage, NoAgent, NoMessageToRedact, << >>, NoAgent)
                /\ threads' = [threads EXCEPT ![t] = Idle]
           ELSE /\ threads' = [threads EXCEPT ![t].pc = "82", ![t].ref = cacheRef[a]]
                /\ UNCHANGED <<agent, calls, last>>
    /\ UNCHANGED <<cache, repo, hist, heap, cacheRef, race, stream>>

\* line 82: the object is changed in place, for every holder of the reference
RedactMutate(t) ==
    /\ At(t, "82")
    /\ LET h == [heap EXCEPT ![threads[t].ref] = Redacted(@, threads[t].message)]
       IN  /\ heap' = h
           /\ cache' = View(DOMAIN cache, cacheRef, h)
    /\ threads' = Goto(t, "83")
    /\ UNCHANGED <<agent, repo, hist, calls, last, cacheRef, race, stream>>

\* line 83: `self.session_repository.update_message(...)`, and the return
RedactUpdate(t) ==
    /\ At(t, "83")
    /\ LET a == threads[t].agent_id
           latest_agent_message == heap[threads[t].ref]
           atCall == threads[t].before.cache
           ths == [threads EXCEPT ![t] = Idle]
       IN  /\ repoMessages' = UpdateMessage(repoMessages, a, latest_agent_message)
           /\ race' = [race EXCEPT ![a].redactedOther =
                           @ \/ /\ atCall \notin {Absent, None}
                                /\ atCall.message_id # latest_agent_message.message_id]
           /\ Leave(t, threads[t].message, NoAgent, "ok",
                    <<Call("update_message", a, latest_agent_message)>>, NoAgent)
           /\ threads' = ths
           /\ heap' = Collect(heap, cacheRef, ths)
    /\ UNCHANGED <<cache, repoSessions, repoAgents, hist, cacheRef, stream>>

\* lines 91-94, and the return
SyncUpdate(t) ==
    /\ At(t, "91")
    /\ LET a == threads[t].agent_id
           snapshot == FromAgent(a, threads[t].message)
       IN  /\ repoAgents' = UpdateAgent(repoAgents, snapshot)
           /\ Leave(t, NoMessage, NoAgent, "ok", <<Call("update_agent", a, snapshot)>>,
                    [messages |-> << >>, state |-> threads[t].message])
    /\ threads' = [threads EXCEPT ![t] = Idle]
    /\ UNCHANGED <<cache, repoSessions, repoMessages, hist, heap, cacheRef, race, stream>>

\* lines 102-103
InitCheck(t) ==
    /\ At(t, "102")
    /\ IF AlreadyInitialized(threads[t].agent_id)
       THEN /\ Leave(t, NoMessage, NoAgent, DuplicateInitialization, << >>, NoAgent)
            /\ threads' = [threads EXCEPT ![t] = Idle]
       ELSE /\ threads' = Goto(t, "104")
            /\ UNCHANGED <<agent, calls, last>>
    /\ UNCHANGED <<cache, repo, hist, heap, cacheRef, race, stream>>

\* line 104: `self._latest_agent_message[agent.agent_id] = None`
InitCache(t) ==
    /\ At(t, "104")
    /\ LET a == threads[t].agent_id
           ths == Goto(t, "106")
           refs == CachePut(cacheRef, a, 0)
           h == Collect(heap, refs, ths)
       IN  /\ threads' = ths
           /\ cacheRef' = refs
           /\ heap' = h
           /\ cache' = View(DOMAIN cache \cup {a}, refs, h)
           /\ appendId' = [appendId EXCEPT ![a] = -1]
    /\ UNCHANGED <<agent, repo, created, base, calls, last, race, stream>>

\* line 106: `session_agent = self.session_repository.read_agent(...)`
InitRead(t) ==
    /\ At(t, "106")
    /\ LET a == threads[t].agent_id
           session_agent == ReadAgent(repoAgents, a)
       IN  threads' = IF session_agent = None
                      THEN [threads EXCEPT ![t].pc = "116",
                                           ![t].log = <<Call("read_agent", a, None)>>]
                      ELSE [threads EXCEPT ![t].pc = "127",
                                           ![t].log = <<Call("read_agent", a, None)>>,
                                           ![t].message = session_agent.state]
    /\ UNCHANGED <<vars, heap, cacheRef, race, stream>>

\* lines 115-116: create_agent; the return when agent.messages is empty
InitCreateAgent(t) ==
    /\ At(t, "116")
    /\ LET a == threads[t].agent_id
           given == threads[t].given
           snapshot == FromAgent(a, given.state)
           log == Append(threads[t].log, Call("create_agent", a, snapshot))
       IN  /\ repoAgents' = CreateAgent(repoAgents, snapshot)
           /\ IF given.messages = << >>
              THEN /\ Leave(t, NoMessage, given, "ok", log, given)
                   /\ threads' = [threads EXCEPT ![t] = Idle]
                   /\ base' = [base EXCEPT ![a] = Len(created[a])]
              ELSE /\ threads' = [threads EXCEPT ![t].pc = "120", ![t].log = log]
                   /\ UNCHANGED <<agent, calls, last, base>>
    /\ UNCHANGED <<cache, repoSessions, repoMessages, created, appendId, heap, cacheRef,
                   race, stream>>

\* lines 118-120: one create_message of the loop; the return after the last one
InitCreateMessage(t) ==
    /\ At(t, "120")
    /\ LET a == threads[t].agent_id
           given == threads[t].given
           pos == threads[t].index + 1
           session_message == FromMessage(given.messages[pos], EnumerateIndex(pos))
           log == Append(threads[t].log, Call("create_message", a, session_message))
       IN  /\ repoMessages' = CreateMessage(repoMessages, a, session_message)
           /\ created' = [created EXCEPT ![a] = Append(@, session_message)]
           /\ IF pos = Len(given.messages)
              THEN /\ Leave(t, NoMessage, given, "ok", log, given)
                   /\ threads' = [threads EXCEPT ![t] = Idle]
                   /\ base' = [base EXCEPT ![a] = Len(created'[a])]
              ELSE /\ threads' = [threads EXCEPT ![t].index = pos, ![t].log = log]
                   /\ UNCHANGED <<agent, calls, last, base>>
    /\ UNCHANGED <<cache, repoSessions, repoAgents, appendId, heap, cacheRef, race, stream>>

\* lines 127-131: list_messages, the agent refilled, and the return
InitList(t) ==
    /\ At(t, "127")
    /\ LET a == threads[t].agent_id
           listed == ListMessages(repoMessages, a)
       IN  /\ Leave(t, NoMessage, NoAgent, "ok",
                    Append(threads[t].log, Call("list_messages", a, None)),
                    [messages |-> RestoredMessages(listed), state |-> threads[t].message])
           /\ base' = [base EXCEPT ![a] = Len(created[a])]
    /\ threads' = [threads EXCEPT ![t] = Idle]
    /\ UNCHANGED <<cache, repo, created, appendId, heap, cacheRef, race, stream>>

\* a new instance on the same repository, when no call is in progress
Restart ==
    /\ \A t \in Threads : threads[t].pc = "idle"
    /\ Construct
    /\ heap' = EmptyHeap
    /\ cacheRef' = [a \in Agents |-> 0]
    /\ race' = NoRace
    /\ UNCHANGED <<threads, stream>>

\* a step of a call in progress
Step(t) ==
    \/ AppendRead(t) \/ AppendCache(t) \/ AppendCreate(t)
    \/ RedactRead(t) \/ RedactMutate(t) \/ RedactUpdate(t)
    \/ SyncUpdate(t)
    \/ InitCheck(t) \/ InitCache(t) \/ InitRead(t)
    \/ InitCreateAgent(t) \/ InitCreateMessage(t) \/ InitList(t)

\* the calls for one agent_id come from one thread: they are serialized, and
\* overlap with the calls for the other agent_id only
OwnThread == {<<"t1", "a1">>, <<"t2", "a2">>}

NextInterleave ==
    \/ \E p \in OwnThread, given \in ConcObjects : CallInitialize(p[1], p[2], given)
    \/ \E p \in OwnThread, m \in ConcContents : CallAppendMessage(p[1], p[2], m)
    \/ \E p \in OwnThread, r \in ConcRedacts : CallRedactLatestMessage(p[1], p[2], r)
    \/ \E p \in OwnThread, s \in ConcStates : CallSyncAgent(p[1], p[2], s)
    \/ \E t \in Threads : Step(t)
    \/ Restart

SpecInterleave == Init /\ [][NextInterleave]_allvars

\* Two threads calling append_message and redact_latest_message for one agent_id,
\* on an instance that has initialized that agent, a new one with no message.
RaceAgents == {"a1"}
RaceObject == [messages |-> << >>, state |-> "x1"]

InitRace ==
    /\ cache = [a \in RaceAgents |-> None]
    /\ agent = RaceObject
    /\ repoSessions = {SessionId}
    /\ repoAgents = [a \in RaceAgents |-> FromAgent(a, RaceObject.state)]
    /\ repoMessages = [a \in Agents |-> {}]
    /\ created = [a \in Agents |-> << >>]
    /\ base = [a \in Agents |-> 0]
    /\ appendId = [a \in Agents |-> -1]
    /\ calls = <<Call("read_agent", "a1", None),
                 Call("create_agent", "a1", FromAgent("a1", RaceObject.state))>>
    /\ last = Outcome("initialize", "a1", NoMessage, RaceObject, "ok")
    /\ NoConcurrency
    /\ stream = StreamOff

NextRace ==
    \/ \E t \in Threads, a \in RaceAgents, m \in ConcContents : RaceAppendMessage(t, a, m)
    \/ \E t \in Threads, a \in RaceAgents, r \in ConcRedacts : CallRedactLatestMessage(t, a, r)
    \/ \E t \in Threads :
           \/ AppendRead(t) \/ AppendCache(t) \/ AppendCreate(t)
           \/ RedactRead(t) \/ RedactMutate(t) \/ RedactUpdate(t)

SpecRace == InitRace /\ [][NextRace]_allvars

\* --------------------------------------------------------- BasetenModel.stream
\* The generator of strands/models/baseten.py, run to its end by its consumer.  A
\* provider event is what stream reads of it: whether it has choices, and of
\* choices[0] the delta's content, reasoning_content and tool_calls (by index) and
\* the finish_reason; "" and << >> stand for the falsy values (None, "", []).
ToolIndexes == {<< >>, <<0>>, <<1>>, <<0, 1>>}
ProviderEvents ==
    {[choices |-> FALSE, content |-> "", reasoning_content |-> "", tool_calls |-> << >>,
      finish_reason |-> ""]}
    \cup [choices : {TRUE}, content : {"", "c"}, reasoning_content : {"", "q"},
          tool_calls : ToolIndexes, finish_reason : {"", "stop"}]
Responses == SeqsUpTo(ProviderEvents, MaxEvents)

\* what a chunk carries: the provider event it comes from, the tool_call index, text
Data(event, index, text) == [event |-> event, index |-> index, text |-> text]
NoData == Data(0, -1, "")
Chunk(chunk_type, data_type, data) ==
    [chunk_type |-> chunk_type, data_type |-> data_type, data |-> data]

UnboundLocalError == "UnboundLocalError"

\* `tool_calls.setdefault(tool_call.index, []).append(tool_call)` for the tool
\* calls of the event at position pos, from the i-th on; the dict keeps its keys in
\* insertion order
RECURSIVE Collected(_, _, _, _)
Collected(dict, indexes, pos, i) ==
    IF i > Len(indexes) THEN dict
    ELSE LET tool_call == Data(pos, indexes[i], "")
             known == \E k \in 1..Len(dict) : dict[k].index = indexes[i]
             next == IF known
                     THEN [k \in 1..Len(dict) |->
                             IF dict[k].index = indexes[i]
                             THEN [dict[k] EXCEPT !.deltas = Append(@, tool_call)]
                             ELSE dict[k]]
                     ELSE Append(dict, [index |-> indexes[i], deltas |-> <<tool_call>>])
         IN  Collected(next, indexes, pos, i + 1)

\* lines 137-143: the chunks of the tool blocks, for the entries of the dict from
\* the k-th on
RECURSIVE ToolChunks(_, _)
ToolChunks(dict, k) ==
    IF k > Len(dict) THEN << >>
    ELSE LET tool_deltas == dict[k].deltas
         IN  <<Chunk("content_start", "tool", tool_deltas[1])>>
             \o [i \in 1..Len(tool_deltas) |-> Chunk("content_delta", "tool", tool_deltas[i])]
             \o <<Chunk("content_stop", "tool", NoData)>>
             \o ToolChunks(dict, k + 1)

InitStream ==
    /\ Constructed
    /\ NoConcurrency
    /\ stream \in {[StreamOff EXCEPT !.pc = "106", !.response = r] : r \in Responses}

\* lines 106-111: the request is sent, the two opening chunks are yielded
StreamStart ==
    /\ stream.pc = "106"
    /\ stream' = [stream EXCEPT !.pc = "113",
                                !.yielded = <<Chunk("message_start", "-", NoData),
                                              Chunk("content_start", "text", NoData)>>]
    /\ UNCHANGED <<vars, conc>>

\* lines 113-133: one iteration of `for event in response`
StreamEvent ==
    /\ stream.pc = "113"
    /\ stream.pos < Len(stream.response)
    /\ LET pos == stream.pos + 1
           event == stream.response[pos]
       IN  IF ~event.choices
           THEN stream' = [stream EXCEPT !.pos = pos, !.event = pos]
           ELSE LET text == IF event.content # ""
                            THEN <<Chunk("content_delta", "text", Data(pos, -1, event.content))>>
                            ELSE << >>
                    reasoning == IF event.reasoning_content # ""
                                 THEN <<Chunk("content_delta", "reasoning_content",
                                              Data(pos, -1, event.reasoning_content))>>
                                 ELSE << >>
                IN  stream' = [stream EXCEPT
                                  !.pos = pos, !.event = pos, !.choice = pos,
                                  !.yielded = @ \o text \o reasoning,
                                  !.tool_calls = Collected(@, event.tool_calls, pos, 1),
                                  !.pc = IF event.finish_reason # "" THEN "135" ELSE "113"]
    /\ UNCHANGED <<vars, conc>>

\* line 113: the response has no further event
StreamExhausted ==
    /\ stream.pc = "113"
    /\ stream.pos = Len(stream.response)
    /\ stream' = [stream EXCEPT !.pc = "135"]
    /\ UNCHANGED <<vars, conc>>

\* lines 135-145: the text block is closed, the tool blocks are yielded, then
\* message_stop with `choice.finish_reason`; `choice` is a local that only line 117
\* binds
StreamStop ==
    /\ stream.pc = "135"
    /\ LET blocks == <<Chunk("content_stop", "text", NoData)>>
                      \o ToolChunks(stream.tool_calls, 1)
       IN  IF stream.choice = 0
           THEN stream' = [stream EXCEPT !.pc = UnboundLocalError, !.yielded = @ \o blocks]
           ELSE stream' = [stream EXCEPT
                              !.pc = "148",
                              !.yielded = @ \o blocks
                                  \o <<Chunk("message_stop", "-",
                                             Data(stream.choice, -1,
                                                  stream.response[stream.choice].finish_reason))>>]
    /\ UNCHANGED <<vars, conc>>

\* lines 148-149: one iteration of the second `for event in response`
StreamDrain ==
    /\ stream.pc = "148"
    /\ stream.pos < Len(stream.response)
    /\ stream' = [stream EXCEPT !.pos = @ + 1, !.event = stream.pos + 1]
    /\ UNCHANGED <<vars, conc>>

\* line 151: metadata with `event.usage`, and the end of the generator
StreamMetadata ==
    /\ stream.pc = "148"
    /\ stream.pos = Len(stream.response)
    /\ IF stream.event = 0
       THEN stream' = [stream EXCEPT !.pc = UnboundLocalError]
       ELSE stream' = [stream EXCEPT !.pc = "returned",
                                    !.yielded = Append(@, Chunk("metadata", "-",
                                                                Data(stream.event, -1, "usage")))]
    /\ UNCHANGED <<vars, conc>>

NextStream ==
    \/ StreamStart
    \/ StreamEvent
    \/ StreamExhausted
    \/ StreamStop
    \/ StreamDrain
    \/ StreamMetadata

SpecStream == InitStream /\ [][NextStream]_allvars

\* ================================================================== claims
IsCall(op, a, result) == last.op = op /\ last.agent_id = a /\ last.result = result
IsCallNext(op, a) == last'.op = op /\ last'.agent_id = a
Ids(log) == [i \in 1..Len(log) |-> log[i].message_id]
UpTo(n) == [i \in 1..n |-> i - 1]
WriteOps == {"create_session", "create_agent", "update_agent", "create_message", "update_message"}
NoWrite(cs) == \A i \in 1..Len(cs) : cs[i].op \notin WriteOps

\* C1: for every agent the message_ids passed to create_message, in creation
\* order, are 0, 1, ..., m-1: none is created twice and none is skipped.
C1_CreatedIdsContiguous ==
    \A a \in Agents : Ids(created[a]) = UpTo(Len(created[a]))

\* C2: on an agent initialized with no persisted and no in-memory message, the
\* N-th successful append_message (N = 1, 2, ...) persists message_id N-1 with the
\* content of that call, so that the ids persisted are exactly 0..N-1 in call order.
C2_FreshAppendsNumbered ==
    [][\A a \in Agents :
          (a \in DOMAIN cache /\ base[a] = 0 /\ IsCallNext("append_message", a))
          => LET n == Len(created[a])
             IN  /\ last'.result = "ok"
                 /\ created'[a] = Append(created[a], [message_id |-> n, message |-> last'.message,
                                                      redact_message |-> NoRedact])
                 /\ Ids(created'[a]) = UpTo(n + 1)
                 /\ {m.message_id : m \in repoMessages'[a]} = 0..n
                 /\ \A m \in repoMessages'[a] : m.message = created'[a][m.message_id + 1].message
      ]_vars

C2_Witness ==
    \E a \in Agents :
        /\ IsCall("append_message", a, "ok")
        /\ a \in DOMAIN cache /\ base[a] = 0
        /\ Len(created[a]) = 2
        /\ created[a][1].message # created[a][2].message

\* C3: when initialize returns, the cache entry of the agent is the last message
\* persisted for it (the one with the greatest message_id), and None exactly when
\* the agent has no message.
C3_CacheIsLastPersisted ==
    \A a \in Agents :
        IsCall("initialize", a, "ok")
        => LET listed == ListMessages(repoMessages, a)
           IN  cache[a] = IF listed = << >> THEN None ELSE listed[Len(listed)]

\* C4: initialize on the restore path replaces agent.messages by the persisted
\* messages in ascending message_id order (as to_message gives them) and agent.state
\* by the persisted state, and writes nothing to the repository.
C4_RestoreReplacesAgent ==
    [][\A a \in Agents :
          (a \notin DOMAIN cache /\ a \in DOMAIN repoAgents /\ IsCallNext("initialize", a))
          => /\ last'.result = "ok"
             /\ Len(agent'.messages) = Cardinality(repoMessages[a])
             /\ \A i \in 1..Len(agent'.messages) :
                    \E m \in repoMessages[a] :
                        /\ Cardinality({x \in repoMessages[a] : x.message_id < m.message_id}) = i - 1
                        /\ agent'.messages[i] = ToMessage(m)
             /\ agent'.state = repoAgents[a].state
             /\ NoWrite(calls')
             /\ UNCHANGED repo
      ]_vars

C4_Witness ==
    \E a \in Agents :
        /\ IsCall("initialize", a, "ok")
        /\ Len(calls) = 2 /\ calls[2].op = "list_messages"
        /\ Len(agent.messages) = 2
        /\ agent.messages[1] # agent.messages[2]
        /\ \E m \in repoMessages[a] : m.redact_message # NoRedact

\* C5: initialize on the create path calls create_agent once with a snapshot of the
\* agent, then create_message once per element of agent.messages, in list order,
\* with message_id the element's 0-based position; the agent is left as it was.
C5_CreatePersistsInOrder ==
    [][\A a \in Agents :
          (a \notin DOMAIN cache /\ a \notin DOMAIN repoAgents /\ IsCallNext("initialize", a))
          => LET given == last'.given
                 held == given.messages
             IN  /\ last'.result = "ok"
                 /\ Len(calls') = 2 + Len(held)
                 /\ calls'[1].op = "read_agent"
                 /\ calls'[2] = [op |-> "create_agent", agent_id |-> a,
                                 arg |-> [agent_id |-> a, state |-> given.state]]
                 /\ \A i \in 1..Len(held) :
                        calls'[2 + i] = [op |-> "create_message", agent_id |-> a,
                                         arg |-> [message_id |-> i - 1, message |-> held[i],
                                                  redact_message |-> NoRedact]]
                 /\ repoAgents'[a].state = given.state
                 /\ repoMessages'[a] = {[message_id |-> i - 1, message |-> held[i],
                                         redact_message |-> NoRedact] : i \in 1..Len(held)}
                 /\ agent' = given
      ]_vars

C5_Witness ==
    \E a \in Agents :
        /\ IsCall("initialize", a, "ok")
        /\ Len(calls) = 4 /\ calls[2].op = "create_agent"
        /\ calls[3].arg.message # calls[4].arg.message
\* C6: initialize for an agent_id already initialized on this instance fails with
\* the duplicate-initialization SessionException, makes no repository call, and
\* leaves the cache and the repository as they were.
C6_SecondInitializeRejected ==
    [][\A a \in Agents :
          (a \in DOMAIN cache /\ IsCallNext("initialize", a))
          => /\ last'.result = DuplicateInitialization
             /\ calls' = << >>
             /\ UNCHANGED <<cache, repo>>
      ]_vars

C6_Witness ==
    \E a \in Agents :
        /\ IsCall("initialize", a, DuplicateInitialization)
        /\ appendId[a] >= 0 /\ cache[a].redact_message # NoRedact
        /\ a \in DOMAIN repoAgents /\ repoAgents[a].state = "x2"

\* C7: redact_latest_message(r) right after an append_message that persisted
\* message_id k issues exactly one update_message, for the record with message_id k,
\* the appended content and redact_message r; every other message is left untouched.
C7_RedactAfterAppend ==
    [][\A a \in Agents :
          (IsCall("append_message", a, "ok") /\ IsCallNext("redact_latest_message", a))
          => LET k == calls[1].arg.message_id
                 record == [message_id |-> k, message |-> last.message,
                           redact_message |-> last'.message]
             IN  /\ last'.result = "ok"
                 /\ calls' = <<[op |-> "update_message", agent_id |-> a, arg |-> record]>>
                 /\ record \in repoMessages'[a]
                 /\ {m \in repoMessages'[a] : m.message_id # k}
                        = {m \in repoMessages[a] : m.message_id # k}
                 /\ \A b \in Agents \ {a} : repoMessages'[b] = repoMessages[b]
                 /\ UNCHANGED <<repoAgents, repoSessions>>
      ]_vars

C7_Witness ==
    \E a \in Agents :
        /\ IsCall("redact_latest_message", a, "ok")
        /\ calls[1].arg.message_id = 1
        /\ \E m \in repoMessages[a] : m.message_id = 0
        /\ \E b \in Agents \ {a} : TRUE

\* C8: redact_latest_message on an initialized agent that has had no
\* append_message and for which initialize found no message fails with the
\* no-message-to-redact SessionException; nothing is written and the cache entry
\* stays None.
C8_NothingToRedact ==
    [][\A a \in Agents :
          (a \in DOMAIN cache /\ base[a] = 0 /\ appendId[a] = -1
             /\ IsCallNext("redact_latest_message", a))
          => /\ last'.result = NoMessageToRedact
             /\ NoWrite(calls')
             /\ UNCHANGED repo
             /\ cache[a] = None /\ cache'[a] = None
      ]_vars

C8_Witness ==
    \E a \in Agents :
        /\ IsCall("redact_latest_message", a, NoMessageToRedact)
        /\ a \in DOMAIN cache /\ base[a] = 0 /\ appendId[a] = -1

\* C9: redaction never moves the target or the next index: every
\* redact_latest_message after the append_message that persisted message_id k
\* updates message_id k and leaves there the content of that call, and the next
\* append_message persists message_id k + 1.
C9_RedactionKeepsIndex ==
    [][\A a \in Agents :
          /\ (appendId[a] >= 0 /\ IsCallNext("redact_latest_message", a))
             => /\ last'.result = "ok"
                /\ Len(calls') = 1 /\ calls'[1].op = "update_message"
                /\ calls'[1].arg.message_id = appendId[a]
                /\ \E m \in repoMessages'[a] :
                       m.message_id = appendId[a] /\ m.redact_message = last'.message
                /\ appendId'[a] = appendId[a]
          /\ (appendId[a] >= 0 /\ IsCallNext("append_message", a))
             => /\ last'.result = "ok"
                /\ calls'[1].op = "create_message"
                /\ calls'[1].arg.message_id = appendId[a] + 1
      ]_vars

C9_Witness ==
    \E a \in Agents :
        /\ IsCall("append_message", a, "ok")
        /\ appendId[a] = 1
        /\ \E m \in repoMessages[a] : m.message_id = 0 /\ m.redact_message # NoRedact
        /\ Ids(created[a]) = <<0, 1>>

\* C10: sync_agent issues exactly one update_agent, carrying a snapshot of the
\* agent's current state, so that the repository's SessionAgent reads back that
\* state; no SessionMessage is touched and the cache is left as it was.
C10_SyncWritesAgentOnly ==
    [][\A a \in Agents :
          IsCallNext("sync_agent", a)
          => /\ last'.result = "ok"
             /\ calls' = <<[op |-> "update_agent", agent_id |-> a,
                            arg |-> [agent_id |-> a, state |-> agent'.state]]>>
             /\ ReadAgent(repoAgents', a).state = agent'.state
             /\ \A b \in DOMAIN repoAgents \ {a} : repoAgents'[b] = repoAgents[b]
             /\ UNCHANGED <<repoMessages, cache>>
      ]_vars

C10_Witness ==
    \E a \in Agents :
        /\ IsCall("sync_agent", a, "ok")
        /\ calls[1].arg.state = "x2"
        /\ repoMessages[a] # {}
        /\ a \in DOMAIN cache /\ cache[a] # None

\* ---------------------------------------------------------------- C11..C19
IsFailure(op, a) == last'.op = op /\ last'.agent_id = a /\ last'.result = RepositoryError
IsTermination(op, a) == last'.op = op /\ last'.agent_id = a /\ last'.result = Down
IdsIn(S) == {m.message_id : m \in S}
\* the id after the greatest one persisted
NextFreeId(S) == IF S = {} THEN 0 ELSE (CHOOSE i \in IdsIn(S) : \A j \in IdsIn(S) : j <= i) + 1

\* C11: when create_message raises inside append_message, the call ends with that
\* exception and the cache entry of the agent is what it was before the call.
C11_FailedAppendKeepsCache ==
    [][\A a \in Agents :
          IsFailure("append_message", a)
          => /\ calls'[Len(calls')].op = "create_message"
             /\ cache'[a] = cache[a]
      ]_vars

\* C12: a process that ends inside a coordinator call leaves the repository either
\* as it was before the call or as the whole call leaves it; in particular an
\* initialize on the create path that has written the agent has written every
\* message of agent.messages.
C12_TerminationLeavesWholeCalls ==
    [][\A a \in Agents :
          /\ (IsTermination("initialize", a) /\ a \notin DOMAIN repoAgents)
             => \/ UNCHANGED repo
                \/ /\ a \in DOMAIN repoAgents'
                   /\ IdsIn(repoMessages'[a]) = 0..(Len(last'.given.messages) - 1)
          /\ (IsTermination("initialize", a) /\ a \in DOMAIN repoAgents)
             => UNCHANGED repo
          /\ IsTermination("append_message", a)
             => \/ UNCHANGED repo
                \/ \E m \in repoMessages'[a] :
                       m.message = last'.message /\ m.message_id = NextIndex(cache[a])
      ]_vars

\* C14: only initialize adds a key to the cache; append_message,
\* redact_latest_message and sync_agent leave the key set as it is, and
\* append_message or redact_latest_message for an agent_id not initialized on this
\* instance fails with no repository call, no write and no new key.
C14_OnlyInitializeAddsKeys ==
    [][/\ last'.op \in {"append_message", "redact_latest_message", "sync_agent"}
          => DOMAIN cache' = DOMAIN cache
       /\ ~(DOMAIN cache' \subseteq DOMAIN cache) => last'.op = "initialize"
       /\ \A a \in Agents :
             (a \notin DOMAIN cache
                /\ (IsCallNext("append_message", a) \/ IsCallNext("redact_latest_message", a)))
             => /\ last'.result = "KeyError"
                /\ calls' = << >>
                /\ UNCHANGED repo
                /\ a \notin DOMAIN cache'
      ]_vars

C14_Witness ==
    \E a \in Agents, b \in Agents :
        /\ IsCall("append_message", a, "KeyError")
        /\ a \notin DOMAIN cache
        /\ a \in DOMAIN repoAgents
        /\ b \in DOMAIN cache /\ cache[b] # None

\* C15: after an initialize that created or restored n >= 1 messages for an agent,
\* and with no append_message since, redact_latest_message succeeds and issues one
\* update_message, for message_id n - 1.
C15_RedactAfterInitialize ==
    [][\A a \in Agents :
          (a \in DOMAIN cache /\ appendId[a] = -1 /\ repoMessages[a] # {}
             /\ IsCallNext("redact_latest_message", a))
          => /\ last'.result = "ok"
             /\ Len(calls') = 1 /\ calls'[1].op = "update_message"
             /\ calls'[1].arg.message_id = Cardinality(repoMessages[a]) - 1
      ]_vars

\* C16: when a repository call raises inside initialize, the cache has no entry
\* for the agent_id afterwards, and initialize called again for it on the same
\* instance is not rejected as a duplicate.
C16_FailedInitializeLeavesNoEntry ==
    [][\A a \in Agents :
          /\ IsFailure("initialize", a) => a \notin DOMAIN cache'
          /\ (last.op = "initialize" /\ last.agent_id = a /\ last.result = RepositoryError
                /\ IsCallNext("initialize", a))
             => last'.result # DuplicateInitialization
      ]_vars

C19_SessionFirstAndOnce ==
    [][/\ (repoAgents' # repoAgents \/ repoMessages' # repoMessages)
          => SessionId \in repoSessions
       /\ last'.op = "__init__"
          => /\ calls'[1].op = "read_session"
             /\ (\E i \in 1..Len(calls') : calls'[i].op = "create_session")
                   <=> SessionId \notin repoSessions
             /\ Cardinality({i \in 1..Len(calls') : calls'[i].op = "create_session"}) <= 1
             /\ SessionId \in repoSessions'
       /\ last'.op # "__init__"
          => \A i \in 1..Len(calls') : calls'[i].op # "create_session"
       /\ repoSessions \subseteq repoSessions'
      ]_vars

C19_Witness ==
    /\ last.op = "__init__"
    /\ calls = <<Call("read_session", "-", [session_id |-> SessionId])>>
    /\ repoSessions = {SessionId}
    /\ repoAgents # << >>
    /\ \E a \in Agents : repoMessages[a] # {}

\* ---------------------------------------------------------------- C13, C18
\* what the call of thread record th leaves for its agent when it runs from what it
\* found at its call with nothing in between
Alone(th) ==
    LET b == th.before
        a == th.agent_id
    IN  IF th.op = "append_message"
        THEN IF b.cache = Absent THEN b
             ELSE LET n == IF b.cache = None THEN 0 ELSE b.cache.message_id + 1
                      sm == [message_id |-> n, message |-> th.message, redact_message |-> NoRedact]
                  IN  [cache |-> sm,
                       messages |-> {m \in b.messages : m.message_id # n} \cup {sm},
                       agent |-> b.agent,
                       created |-> Append(b.created, sm)]
        ELSE IF th.op = "redact_latest_message"
        THEN IF b.cache \in {Absent, None} THEN b
             ELSE LET sm == [b.cache EXCEPT !.redact_message = th.message]
                  IN  [b EXCEPT !.cache = sm,
                                !.messages = {IF m.message_id = sm.message_id THEN sm ELSE m : m \in @}]
        ELSE IF th.op = "sync_agent"
        THEN [b EXCEPT !.agent = [agent_id |-> a, state |-> th.message]]
        ELSE IF b.cache # Absent THEN b
             ELSE IF b.agent # None THEN [b EXCEPT !.cache = None]
             ELSE LET new == [i \in 1..Len(th.given.messages) |->
                                [message_id |-> i - 1, message |-> th.given.messages[i],
                                 redact_message |-> NoRedact]]
                  IN  [cache |-> None,
                       messages |-> b.messages \cup {new[i] : i \in 1..Len(new)},
                       agent |-> [agent_id |-> a, state |-> th.given.state],
                       created |-> b.created \o new]

AloneResult(th) ==
    LET b == th.before
    IN  IF th.op \in {"append_message", "redact_latest_message"} /\ b.cache = Absent
        THEN "KeyError"
        ELSE IF th.op = "redact_latest_message" /\ b.cache = None THEN NoMessageToRedact
        ELSE IF th.op = "initialize" /\ b.cache # Absent THEN DuplicateInitialization
        ELSE "ok"

\* C13: with the calls for each agent_id serialized, a step of a call for one agent
\* leaves untouched what there is for every other agent (cache entry, persisted
\* messages and agent, ids created), and when the call returns, what there is for
\* its own agent, and its outcome, are those of the call run alone from what it
\* found: the same cache entry, message_ids and redaction target.
C13_AgentsDoNotInterfere ==
    [][\A t \in Threads :
          (threads[t].pc # "idle" /\ threads'[t] # threads[t])
          => LET a == threads[t].agent_id
             IN  /\ \A x \in Agents \ {a} :
                        Projection(cache', repoAgents', repoMessages', created', x)
                            = Projection(cache, repoAgents, repoMessages, created, x)
                 /\ threads'[t].pc = "idle"
                    => /\ Projection(cache', repoAgents', repoMessages', created', a)
                              = Alone(threads[t])
                       /\ last'.result = AloneResult(threads[t])
                       /\ last'.agent_id = a
      ]_allvars

C13_Witness ==
    /\ threads["t1"].pc = "70" /\ threads["t1"].agent_id = "a1"
    /\ threads["t2"].pc = "83" /\ threads["t2"].agent_id = "a2"
    /\ cache["a1"].message_id = 0
    /\ cache["a2"].redact_message # NoRedact

HasDuplicate(ids) == \E i, j \in 1..Len(ids) : i < j /\ ids[i] = ids[j]

\* C18: two append_message calls of one instance for one agent_id persist the same
\* message_id, or a redact_latest_message updates another message than the one
\* that was the latest when it was called, only if calls for that agent_id were in
\* progress at the same time; both happen when they are.
C18_RacesNeedOverlap ==
    \A a \in Agents :
        (HasDuplicate(race[a].appended) \/ race[a].redactedOther) => race[a].overlapped

C18_Witness ==
    \E a \in Agents :
        /\ HasDuplicate(race[a].appended)
        /\ race[a].redactedOther
        /\ \A t \in Threads : threads[t].pc = "idle"

\* --------------------------------------------------------------------- C20
Is(chunk, chunk_type, data_type) == chunk.chunk_type = chunk_type /\ chunk.data_type = data_type
Count(y, chunk_type, data_type) ==
    Cardinality({i \in 1..Len(y) : Is(y[i], chunk_type, data_type)})
\* the position of the first event of r with a finish_reason, Len(r) when none has
FirstFinish(r) ==
    IF \E i \in 1..Len(r) : r[i].choices /\ r[i].finish_reason # ""
    THEN CHOOSE i \in 1..Len(r) :
             /\ r[i].choices /\ r[i].finish_reason # ""
             /\ \A j \in 1..(i - 1) : ~(r[j].choices /\ r[j].finish_reason # "")
    ELSE Len(r)

WellBracketed(y, r) ==
    LET n == Len(y)
    IN  /\ n >= 5
        /\ Is(y[1], "message_start", "-")
        /\ Is(y[2], "content_start", "text")
        /\ Is(y[n], "metadata", "-")
        /\ Is(y[n - 1], "message_stop", "-")
        /\ Count(y, "message_start", "-") = 1
        /\ Count(y, "content_start", "text") = 1
        /\ Count(y, "content_stop", "text") = 1
        /\ Count(y, "message_stop", "-") = 1
        /\ Count(y, "metadata", "-") = 1
        /\ \E k \in 3..(n - 2) :
              /\ Is(y[k], "content_stop", "text")
              /\ \A i \in 3..(k - 1) :
                     Is(y[i], "content_delta", "text") \/ Is(y[i], "content_delta", "reasoning_content")
              /\ \A i \in (k + 1)..(n - 2) : y[i].data_type = "tool"
              \* the tool part is a row of blocks: start, deltas, stop
              /\ k + 1 <= n - 2 => Is(y[k + 1], "content_start", "tool") /\ Is(y[n - 2], "content_stop", "tool")
              /\ \A i \in (k + 1)..(n - 3) :
                     /\ Is(y[i], "content_start", "tool")
                        => Is(y[i + 1], "content_delta", "tool") /\ y[i + 1].data = y[i].data
                     /\ Is(y[i], "content_stop", "tool") => Is(y[i + 1], "content_start", "tool")
                     /\ (Is(y[i], "content_delta", "tool") /\ Is(y[i + 1], "content_delta", "tool"))
                        => /\ y[i + 1].data.index = y[i].data.index
                           /\ y[i + 1].data.event > y[i].data.event
              \* one block per tool-call index, holding every delta collected for it
              /\ \A i, j \in (k + 1)..(n - 2) :
                     (Is(y[i], "content_start", "tool") /\ Is(y[j], "content_start", "tool") /\ i # j)
                     => y[i].data.index # y[j].data.index
              /\ \A e \in 1..FirstFinish(r) : r[e].choices =>
                     \A x \in 1..Len(r[e].tool_calls) :
                         Cardinality({i \in (k + 1)..(n - 2) :
                                         /\ Is(y[i], "content_delta", "tool")
                                         /\ y[i].data = Data(e, r[e].tool_calls[x], "")}) = 1
        \* nothing after the first finish_reason is turned into a delta
        /\ \A i \in 1..n : y[i].chunk_type = "content_delta" => y[i].data.event <= FirstFinish(r)

\* C20: for every finite provider response stream ends by returning, never by an
\* exception, and what it has yielded by then is well bracketed: message_start,
\* content_start(text), text and reasoning deltas, one content_stop(text), one
\* block per tool-call index with its deltas in arrival order, one message_stop,
\* metadata last; no event after the first finish_reason gives a delta.
C20_StreamWellBracketed ==
    /\ stream.pc # UnboundLocalError
    /\ stream.pc = "returned" => WellBracketed(stream.yielded, stream.response)
====
